---- MODULE Spec2Model ----
(***************************************************************************)
(* serial_uploader: upload of a configuration file, line by line, to a     *)
(* network device over a serial line (src/serial_uploader/__init__.py).    *)
(*                                                                         *)
(* Text and bytes are sequences of one-character strings over ASCII, where *)
(* str.encode() and bytes.decode() map a character to the byte of the same *)
(* code and back.  Times are in milliseconds.                              *)
(***************************************************************************)
EXTENDS Integers, Sequences, FiniteSets, TLC

VARIABLES
    written,    \* every bytes value passed to handler.write, in order
    pending,    \* the transport's input buffer (handler.inWaiting() = Len)
    quiet,      \* device: polls it still stays silent (-1: it sends nothing)
    chunks,     \* device: chunks it delivered since the last waiting write
    echo,       \* TRUE: the transport echoes every write at once
    late,       \* TRUE: the device may pause in the middle of an answer
    sl,         \* the frame of the running / last call of _send_line
    pc,         \* position of the control flow in upload_config and callees
    up,         \* the locals of upload_config
    sync,       \* the locals of _make_sure_we_are_in_the_first_screen
    au          \* the locals of _open_device_config, _authenticate, _wait_for

vars == <<written, pending, quiet, chunks, echo, late, sl, pc, up, sync, au>>

----------------------------------------------------------------------------
(* Bounds of the model *)

MaxTries == 3       \* largest `tries` of a free-standing exchange
MaxChunks == 2      \* chunks a device delivers during one exchange
MaxLines == 2       \* lines of the configuration file
MaxEchoLines == 3   \* lines of the configuration file sent to an echoing transport
MaxRounds == 2      \* rounds of blank pings of one synchronization
MaxLoginChunks == 1 \* chunks a device delivers during one exchange of the opening
MaxWaitPings == 2   \* blank pings of one wait for a cue
MaxWaitTries == 1   \* largest `tries` of a free-standing wait for a cue

(* Program constants *)

DefaultTries == 100         \* _send_line(tries=100), next_tries = 100
CryptoTries == 5000         \* next_tries = 5000
CryptoExtraWait == 2000     \* extra_wait = 2.0
CryptoRetryInterval == 100  \* next_retry_interval = 0.1
DefaultRetryInterval == 100 \* _send_line(retry_interval=0.1)
CliRetryInterval == 10      \* --retry-interval default=0.01
PingTries == 10             \* _send_line(line="", tries=10)
WaitTries == 10             \* _wait_for(tries=10)
NumExits == 6               \* "exit" lines of the burst
NumDisables == 4            \* "disable" lines of the burst
Unbound == -1               \* a local variable not assigned yet

----------------------------------------------------------------------------
(* Text literals of the program *)

INVALID == <<"i","n","v","a","l","i","d">>
CRLF == <<"\r","\n">>
Y == <<"y">>
DEFINE_RANGE == <<"d","e","f","i","n","e"," ","i","n","t","e","r","f","a","c","e","-","r","a","n","g","e">>
CRYPTO == <<"c","r","y","p","t","o"," ","k","e","y"," ","g","e","n","e","r","a","t","e">>
EXIT == <<"e","x","i","t">>
DISABLE == <<"d","i","s","a","b","l","e">>
END == <<"e","n","d">>
COPY == <<"c","o","p","y"," ","r","u","n","n","i","n","g","-","c","o","n","f","i","g"," ","s","t","a","r","t","u","p","-","c","o","n","f","i","g">>
YES_NO == <<"[","y","e","s","/","n","o","]">>
NO == <<"n","o">>
ENABLE == <<"e","n","a","b","l","e","\n">>
CONFIGURE == <<"c","o","n","f","i","g","u","r","e"," ","t","e","r","m","i","n","a","l">>
USER == <<"U","s","e","r">>
PASSWORD == <<"P","a","s","s","w","o","r","d">>
AUTHENTICATION == <<"A","u","t","h","e","n","t","i","c","a","t","i","o","n">>
BLANK == <<>>
USERNAME == <<"U","s","e","r","n","a","m","e">>
AUTHENTICATION_FAILED == AUTHENTICATION \o <<" ","f","a","i","l","e","d">>

----------------------------------------------------------------------------
(* str methods *)

Whitespace == {" ", "\t", "\n", "\r", "\f"}

RECURSIVE lstrip(_)
lstrip(s) ==
    IF s # <<>> /\ Head(s) \in Whitespace THEN lstrip(Tail(s)) ELSE s

RECURSIVE rstrip(_)
rstrip(s) ==
    IF s # <<>> /\ s[Len(s)] \in Whitespace
    THEN rstrip(SubSeq(s, 1, Len(s) - 1))
    ELSE s

strip(s) == rstrip(lstrip(s))

startswith(s, prefix) ==
    /\ Len(prefix) <= Len(s)
    /\ SubSeq(s, 1, Len(prefix)) = prefix

\* `sub in s`
contains(s, sub) ==
    \E i \in 1..(Len(s) - Len(sub) + 1) : SubSeq(s, i, i + Len(sub) - 1) = sub

UpperToLower ==
    [c \in {"A", "D", "I", "L", "N", "V"} |->
        CASE c = "A" -> "a" [] c = "D" -> "d" [] c = "I" -> "i"
          [] c = "L" -> "l" [] c = "N" -> "n" [] c = "V" -> "v"]

lower(s) ==
    [i \in 1..Len(s) |->
        IF s[i] \in DOMAIN UpperToLower THEN UpperToLower[s[i]] ELSE s[i]]

in_error(result) == contains(lower(result), INVALID)

----------------------------------------------------------------------------
(* The device on the other end of the serial line *)

PROMPT == <<"#">>
ERROR_TEXT == <<"I","n","v","a","l","i","d">>
WIZARD == YES_NO

LOGIN_CUE == USERNAME \o <<":">>
PASSWORD_CUE == PASSWORD \o <<":">>
REJECTED == AUTHENTICATION_FAILED

\* the positions inside _make_sure_we_are_in_the_first_screen
SyncPcs ==
    {"sync_exit", "sync_disable", "sync_blank", "sync_ping", "sync_ping_wait",
     "sync_no_wait"}

\* the positions of _open_device_config, _authenticate and _wait_for
OpenPcs ==
    {"open", "open_synced", "wait_for", "wait_for_ping", "auth_username_seen",
     "auth_user_sent", "auth_password_seen", "auth_password_sent",
     "authenticated", "enable_sent", "configure_sent", "blank_sent"}

\* the session is being opened: the device may still ask for a login
Opening ==
    \/ pc \in OpenPcs
    \/ (pc \in SyncPcs /\ sync.ret = "open_synced")

\* what the device may put on the line in one go
DeviceChunks ==
    IF Opening
    THEN {PROMPT, ERROR_TEXT, WIZARD, LOGIN_CUE, PASSWORD_CUE, REJECTED}
    ELSE {PROMPT, ERROR_TEXT, WIZARD}

\* the chunks of one answer
ChunkLimit == IF Opening THEN MaxLoginChunks ELSE MaxChunks

\* How many polls of an exchange with budget `tries` the device lets pass
\* before its first byte is in the input buffer: none, one, all but the
\* last, all of them; -1: it stays silent.
Delays(tries) == {d \in {-1, 0, 1, tries - 1, tries} : d >= -1}

\* the sleeps after which the next chunk of an answer is in the buffer: the
\* next one, or the one after it when the device pauses
Pauses == IF late THEN {1, 2} ELSE {1}

\* Bytes arrive: one more chunk joins buffer `buf`; the device may have more
\* to say later.
Arrive(buf, n) ==
    \E c \in DeviceChunks, more \in BOOLEAN, pause \in Pauses :
        /\ pending' = buf \o c
        /\ chunks' = n + 1
        /\ quiet' = IF more /\ n + 1 < ChunkLimit THEN pause ELSE -1

\* What the device still has to say of its answer to an earlier line when
\* the next line is written: it is in the input buffer by the first poll.
Owed == IF late /\ quiet >= 1 THEN DeviceChunks ELSE {<<>>}

\* The device while the program sleeps, the input buffer just read empty.
DeviceDuringSleep ==
    IF quiet = 1
    THEN Arrive(<<>>, chunks)
    ELSE /\ pending' = <<>>
         /\ chunks' = chunks
         /\ quiet' = IF quiet > 1 THEN quiet - 1 ELSE quiet

\* The device when a line it is expected to answer has been written, `buf`
\* being what it had emitted before.
DeviceOnWrite(buf, sent, tries) ==
    IF echo
    THEN /\ pending' = buf \o sent
         /\ UNCHANGED <<quiet, chunks>>
    ELSE \E d \in Delays(tries) :
            IF d = 0
            THEN Arrive(buf, 0)
            ELSE /\ pending' = buf
                 /\ chunks' = 0
                 /\ quiet' = d

\* The device when a line is written and nobody waits for the answer.
DeviceOnBlindWrite(sent) ==
    /\ pending' = IF echo THEN pending \o sent ELSE pending
    /\ UNCHANGED <<quiet, chunks>>

----------------------------------------------------------------------------
(* _send_line *)

IdleFrame ==
    [st |-> "idle", line |-> <<>>, wait |-> FALSE, allow_fail |-> FALSE,
     tries |-> 0,
     extra_wait |-> 0, retry_interval |-> 0, result_bytes |-> <<>>,
     tries_left |-> 0, polls |-> 0, slept |-> 0, result |-> <<>>,
     error |-> "none", stale |-> 0]

\* line 24-25
normalize(line, append_newline) ==
    IF append_newline THEN strip(line) \o CRLF ELSE line

\* lines 24-36: the write, and the set-up of the poll loop
send_line(line, wait, allow_fail, tries, append_newline, extra_wait, retry_interval) ==
    LET sent == normalize(line, append_newline) IN
    /\ written' = Append(written, sent)
    /\ IF ~wait
       THEN /\ DeviceOnBlindWrite(sent)
            /\ sl' = [IdleFrame EXCEPT !.st = "returned", !.line = sent,
                                       !.allow_fail = allow_fail, !.tries = tries,
                                       !.extra_wait = extra_wait,
                                       !.retry_interval = retry_interval]
       ELSE \E owed \in Owed :
            /\ DeviceOnWrite(pending \o owed, sent, tries)
            /\ sl' = [IdleFrame EXCEPT !.st = "polling", !.line = sent,
                                       !.wait = TRUE,
                                       !.allow_fail = allow_fail, !.tries = tries,
                                       !.extra_wait = extra_wait,
                                       !.retry_interval = retry_interval,
                                       !.tries_left = tries,
                                       !.slept = extra_wait,
                                       !.stale = Len(pending \o owed)]

\* the loop giving up one poll early
poll_condition_one_short(in_waiting, result_bytes, tries_left) ==
    \/ in_waiting # 0
    \/ (result_bytes = <<>> /\ tries_left > 1)

\* line 38: handler.inWaiting() or not result_bytes and tries_left
poll_condition(in_waiting, result_bytes, tries_left) ==
    \/ in_waiting # 0
    \/ (result_bytes = <<>> /\ tries_left # 0)

\* lines 38-42: one iteration of the poll loop
Poll ==
    /\ sl.st = "polling"
    /\ poll_condition(Len(pending), sl.result_bytes, sl.tries_left)
    /\ sl' = [sl EXCEPT !.result_bytes = @ \o pending,
                        !.tries_left = @ - 1,
                        !.polls = @ + 1,
                        !.slept = @ + sl.retry_interval]
    /\ DeviceDuringSleep
    /\ UNCHANGED <<written, echo, late, pc, up, sync, au>>

\* line 44: if not tries_left
timed_out(tries_left) == tries_left = 0

\* lines 48-49
device_error(result, allow_fail) == in_error(result) /\ ~allow_fail

\* lines 44-53: the end of the exchange
Finish ==
    /\ sl.st = "polling"
    /\ ~poll_condition(Len(pending), sl.result_bytes, sl.tries_left)
    /\ LET result == sl.result_bytes IN
       sl' = IF timed_out(sl.tries_left)
             THEN [sl EXCEPT !.st = "raised", !.error = "ExchangeTimeout"]
             ELSE IF device_error(result, sl.allow_fail)
             THEN [sl EXCEPT !.st = "raised", !.error = "DeviceError",
                             !.result = result]
             ELSE [sl EXCEPT !.st = "returned", !.result = result]
    /\ UNCHANGED <<written, pending, quiet, chunks, echo, late, pc, up, sync, au>>

----------------------------------------------------------------------------
(* One call of _send_line on its own, with arguments of the caller's choice *)

ORDINARY_LINE == <<" ","v","l","a","n"," ","2","\n">>
Y_LINE == <<"y","\n">>
DEFINE_LINE == DEFINE_RANGE \o <<" ","a","\n">>
CRYPTO_LINE == <<" ">> \o CRYPTO \o <<" ","r","s","a","\n">>

ConfigLines == {ORDINARY_LINE, Y_LINE, DEFINE_LINE, CRYPTO_LINE}

NoLocals == [n |-> 0]

InitExchange ==
    /\ written = <<>>
    /\ pending = <<>>
    /\ quiet = -1
    /\ chunks = 0
    /\ echo = FALSE
    /\ late = FALSE
    /\ sl = IdleFrame
    /\ pc = "call"
    /\ up = NoLocals
    /\ sync = NoLocals
    /\ au = NoLocals

Call ==
    /\ pc = "call"
    /\ \E line \in {ORDINARY_LINE, BLANK}, wait \in BOOLEAN, allow_fail \in BOOLEAN,
          tries \in 1..MaxTries, append_newline \in BOOLEAN,
          extra_wait \in {0, CryptoExtraWait},
          retry_interval \in {CliRetryInterval, DefaultRetryInterval} :
            send_line(line, wait, allow_fail, tries, append_newline,
                      extra_wait, retry_interval)
    /\ pc' = "called"
    /\ UNCHANGED <<echo, late, up, sync, au>>

NextExchange == Call \/ Poll \/ Finish

SpecExchange == InitExchange /\ [][NextExchange]_vars

----------------------------------------------------------------------------
(* Exceptions: a raise of _send_line that no caller catches ends the run *)

\* the positions inside the try blocks of lines 131-135 and 68-69
CatchingPcs == {"sync_ping_wait", "wait_for_ping"}

Propagate ==
    /\ sl.st = "raised"
    /\ pc \notin CatchingPcs \cup {"failed"}
    /\ pc' = "failed"
    /\ up' = [up EXCEPT !.exception = sl.error]
    /\ UNCHANGED <<written, pending, quiet, chunks, echo, late, sl, sync, au>>

----------------------------------------------------------------------------
(* _make_sure_we_are_in_the_first_screen *)

\* the call: the locals at line 112
\* `start` (the writes before the call) and `answer` (what the waiting ping
\* returned) are kept for the properties
EnterSync(ret) ==
    [ret |-> ret, n |-> 0, result |-> <<>>, rounds |-> 0,
     start |-> Len(written), answer |-> <<>>]

\* line 141 and line 145: the caller has taken the text the call returned
LeaveSync(locals) == [locals EXCEPT !.result = <<>>, !.answer = <<>>]

\* lines 113-118: one "exit" of the burst
SyncExit ==
    /\ pc = "sync_exit"
    /\ send_line(EXIT, FALSE, TRUE, DefaultTries, TRUE, 0, DefaultRetryInterval)
    /\ sync' = [sync EXCEPT !.n = IF sync.n + 1 = NumExits THEN 0 ELSE @ + 1]
    /\ pc' = IF sync.n + 1 = NumExits THEN "sync_disable" ELSE "sync_exit"
    /\ UNCHANGED <<echo, late, up, au>>

\* lines 121-127: one "disable" of the burst
SyncDisable ==
    /\ pc = "sync_disable"
    /\ send_line(DISABLE, FALSE, TRUE, DefaultTries, TRUE, 0, DefaultRetryInterval)
    /\ sync' = [sync EXCEPT !.n = IF sync.n + 1 = NumDisables THEN 0 ELSE @ + 1]
    /\ pc' = IF sync.n + 1 = NumDisables THEN "sync_blank" ELSE "sync_disable"
    /\ UNCHANGED <<echo, late, up, au>>

\* lines 128-130: `while not result`, and one of the two blank lines nobody
\* waits for
SyncBlank ==
    /\ pc = "sync_blank"
    /\ sync.result = <<>>
    /\ sync.rounds < MaxRounds
    /\ send_line(BLANK, FALSE, FALSE, DefaultTries, TRUE, 0, DefaultRetryInterval)
    /\ sync' = [sync EXCEPT !.n = IF sync.n + 1 = 2 THEN 0 ELSE @ + 1]
    /\ pc' = IF sync.n + 1 = 2 THEN "sync_ping" ELSE "sync_blank"
    /\ UNCHANGED <<echo, late, up, au>>

\* lines 131-133: the blank line whose answer is waited for
SyncPing ==
    /\ pc = "sync_ping"
    /\ send_line(BLANK, TRUE, FALSE, PingTries, TRUE, 0, DefaultRetryInterval)
    /\ sync' = [sync EXCEPT !.rounds = @ + 1]
    /\ pc' = "sync_ping_wait"
    /\ UNCHANGED <<echo, late, up, au>>

\* the retry sending the waiting ping alone
SyncPingRaised_reping ==
    /\ pc = "sync_ping_wait"
    /\ sl.st = "raised"
    /\ pc' = "sync_ping"
    /\ UNCHANGED <<written, pending, quiet, chunks, echo, late, sl, up, sync, au>>

\* lines 134-135: except Exception: pass
SyncPingRaised ==
    /\ pc = "sync_ping_wait"
    /\ sl.st = "raised"
    /\ pc' = "sync_blank"
    /\ UNCHANGED <<written, pending, quiet, chunks, echo, late, sl, up, sync, au>>

\* line 133 (the assignment), line 128 and lines 137-141
SyncPingReturned ==
    /\ pc = "sync_ping_wait"
    /\ sl.st = "returned"
    /\ LET result == sl.result IN
       IF result = <<>>
       THEN /\ pc' = "sync_blank"
            /\ UNCHANGED <<written, pending, quiet, chunks, sl, sync>>
       ELSE IF contains(result, YES_NO)
       THEN /\ send_line(NO, TRUE, FALSE, PingTries, TRUE, 0, DefaultRetryInterval)
            /\ sync' = [sync EXCEPT !.result = result, !.answer = result]
            /\ pc' = "sync_no_wait"
       ELSE /\ sync' = [sync EXCEPT !.result = result, !.answer = result]
            /\ pc' = sync.ret
            /\ UNCHANGED <<written, pending, quiet, chunks, sl>>
    /\ UNCHANGED <<echo, late, up, au>>

\* "no" sent again as long as the dialog asks
SyncNoReturned_again ==
    /\ pc = "sync_no_wait"
    /\ sl.st = "returned"
    /\ IF contains(sl.result, YES_NO)
       THEN /\ send_line(NO, TRUE, FALSE, PingTries, TRUE, 0, DefaultRetryInterval)
            /\ sync' = [sync EXCEPT !.result = sl.result]
            /\ pc' = "sync_no_wait"
       ELSE /\ sync' = [sync EXCEPT !.result = sl.result]
            /\ pc' = sync.ret
            /\ UNCHANGED <<written, pending, quiet, chunks, sl>>
    /\ UNCHANGED <<echo, late, up, au>>

\* lines 139-141
SyncNoReturned ==
    /\ pc = "sync_no_wait"
    /\ sl.st = "returned"
    /\ sync' = [sync EXCEPT !.result = sl.result]
    /\ pc' = sync.ret
    /\ UNCHANGED <<written, pending, quiet, chunks, echo, late, sl, up, au>>

SyncNext ==
    \/ SyncExit
    \/ SyncDisable
    \/ SyncBlank
    \/ SyncPing
    \/ SyncPingRaised
    \/ SyncPingReturned
    \/ SyncNoReturned

----------------------------------------------------------------------------
(* upload_config *)

\* line 206
allow_fail_of(line) == line = Y \/ startswith(line, DEFINE_RANGE)

\* lines 212, 233
is_crypto(line) == contains(line, CRYPTO)

\* the elevated budget never handed on to the next line
next_tries_always_default(line) == DefaultTries

\* lines 213, 217
next_tries_after(line) == IF is_crypto(line) THEN CryptoTries ELSE DefaultTries

\* lines 203, 214
extra_wait_of(line) == IF is_crypto(line) THEN CryptoExtraWait ELSE 0


\* the interval of the crypto line kept for good
next_retry_interval_never_reset(line, original_retry_interval) ==
    CryptoRetryInterval

\* lines 215, 218
next_retry_interval_after(line, original_retry_interval) ==
    IF is_crypto(line) THEN CryptoRetryInterval ELSE original_retry_interval

\* the configuration files: up to MaxLines lines, up to MaxEchoLines on the
\* echoing transport
RECURSIVE SeqsUpTo(_, _)
SeqsUpTo(S, n) ==
    IF n = 0
    THEN {<<>>}
    ELSE LET shorter == SeqsUpTo(S, n - 1) IN
         shorter \cup {Append(q, x) : q \in shorter, x \in S}

ConfigFiles == SeqsUpTo(ConfigLines, IF echo THEN MaxEchoLines ELSE MaxLines)

\* the locals of upload_config at line 195; the options are the command
\* line's
UploadLocals(persist, retry_interval) ==
    [persist |-> persist, retry_interval |-> retry_interval,
     lines |-> <<>>, linenum |-> Unbound, line |-> <<>>, allow_fail |-> FALSE,
     tries |-> Unbound, extra_wait |-> Unbound, next_tries |-> Unbound,
     next_retry_interval |-> Unbound, original_retry_interval |-> Unbound,
     exception |-> "none"]

\* lines 196-199
ReadConfig ==
    /\ pc = "opened"
    /\ \E lines \in ConfigFiles :
        up' = [up EXCEPT !.next_tries = DefaultTries,
                         !.original_retry_interval = up.retry_interval,
                         !.next_retry_interval = up.retry_interval,
                         !.lines = lines]
    /\ pc' = "loop"
    /\ UNCHANGED <<written, pending, quiet, chunks, echo, late, sl, sync, au>>

\* lines 200-231: one line of the file, up to the write of its exchange
SendConfigLine ==
    /\ pc = "loop"
    /\ up.linenum + 1 < Len(up.lines)
    /\ LET linenum == up.linenum + 1
           tries == up.next_tries
           retry_interval == up.next_retry_interval
           line == strip(up.lines[linenum + 1])
           allow_fail == allow_fail_of(line)
           extra_wait == extra_wait_of(line)
       IN
       /\ up' = [up EXCEPT
                    !.linenum = linenum,
                    !.tries = tries,
                    !.retry_interval = retry_interval,
                    !.extra_wait = extra_wait,
                    !.line = line,
                    !.allow_fail = allow_fail,
                    !.next_tries = next_tries_after(line),
                    !.next_retry_interval =
                        next_retry_interval_after(line, up.original_retry_interval)]
       /\ send_line(line, TRUE, allow_fail, tries, TRUE, extra_wait, retry_interval)
    /\ pc' = "line_sent"
    /\ UNCHANGED <<echo, late, sync, au>>

\* the loop going on after a failed exchange
LineDone_swallowing ==
    /\ pc = "line_sent"
    /\ sl.st \in {"returned", "raised"}
    /\ pc' = "loop"
    /\ UNCHANGED <<written, pending, quiet, chunks, echo, late, sl, up, sync, au>>

\* the loop going on before the exchange has ended
LineDone_eager ==
    /\ pc = "line_sent"
    /\ pc' = "loop"
    /\ UNCHANGED <<written, pending, quiet, chunks, echo, late, sl, up, sync, au>>

\* lines 224, 233-237: the exchange returned; on to the next line
LineDone ==
    /\ pc = "line_sent"
    /\ sl.st = "returned"
    /\ pc' = "loop"
    /\ UNCHANGED <<written, pending, quiet, chunks, echo, late, sl, up, sync, au>>

\* lines 239-241
PersistEnd ==
    /\ pc = "loop"
    /\ up.linenum + 1 >= Len(up.lines)
    /\ up.persist
    /\ send_line(END, TRUE, TRUE, DefaultTries, TRUE, 0, DefaultRetryInterval)
    /\ pc' = "end_sent"
    /\ UNCHANGED <<echo, late, up, sync, au>>

\* "copy" sent with the policy computed for the line after the last one
PersistCopy_next_policy ==
    /\ pc = "end_sent"
    /\ sl.st = "returned"
    /\ IF up.tries = Unbound \/ up.extra_wait = Unbound
       THEN /\ pc' = "failed"
            /\ up' = [up EXCEPT !.exception = "UnboundLocalError"]
            /\ UNCHANGED <<written, pending, quiet, chunks, sl>>
       ELSE /\ send_line(COPY, TRUE, FALSE, up.next_tries, TRUE, 0,
                         up.next_retry_interval)
            /\ pc' = "copy_sent"
            /\ up' = up
    /\ UNCHANGED <<echo, late, sync, au>>

\* lines 242-249: a local the loop never assigned is an UnboundLocalError
PersistCopy ==
    /\ pc = "end_sent"
    /\ sl.st = "returned"
    /\ IF up.tries = Unbound \/ up.extra_wait = Unbound
       THEN /\ pc' = "failed"
            /\ up' = [up EXCEPT !.exception = "UnboundLocalError"]
            /\ UNCHANGED <<written, pending, quiet, chunks, sl>>
       ELSE /\ send_line(COPY, TRUE, FALSE, up.tries, TRUE, up.extra_wait,
                         up.retry_interval)
            /\ pc' = "copy_sent"
            /\ up' = up
    /\ UNCHANGED <<echo, late, sync, au>>

\* lines 239, 251: nothing to persist; the closing synchronization begins
SkipPersist ==
    /\ pc = "loop"
    /\ up.linenum + 1 >= Len(up.lines)
    /\ ~up.persist
    /\ pc' = "sync_exit"
    /\ sync' = EnterSync("closed")
    /\ UNCHANGED <<written, pending, quiet, chunks, echo, late, sl, up, au>>

\* lines 242, 251: the copy returned; the closing synchronization begins
CopyDone ==
    /\ pc = "copy_sent"
    /\ sl.st = "returned"
    /\ pc' = "sync_exit"
    /\ sync' = EnterSync("closed")
    /\ UNCHANGED <<written, pending, quiet, chunks, echo, late, sl, up, au>>

\* lines 252-253
Finished ==
    /\ pc = "closed"
    /\ pc' = "done"
    /\ UNCHANGED <<written, pending, quiet, chunks, echo, late, sl, up, sync, au>>

UploadNext ==
    \/ ReadConfig
    \/ SendConfigLine
    \/ LineDone
    \/ PersistEnd
    \/ PersistCopy
    \/ SkipPersist
    \/ CopyDone
    \/ Finished

----------------------------------------------------------------------------
(* The upload proper: upload_config from line 196 on, the session opened   *)
(* with a device that asked for no login and answered the first ping.      *)

Repeat(x, n) == [i \in 1..n |-> x]

\* what _open_device_config writes to such a device: lines 113-133, 161-163
OpeningWrites ==
    Repeat(EXIT \o CRLF, NumExits) \o Repeat(DISABLE \o CRLF, NumDisables)
        \o Repeat(CRLF, 3)
        \o <<ENABLE, CONFIGURE \o CRLF, CRLF>>

InitUpload ==
    /\ written = OpeningWrites
    /\ pending = <<>>
    /\ quiet = -1
    /\ chunks = 0
    /\ echo = FALSE
    /\ late = FALSE
    /\ sl = IdleFrame
    /\ pc = "opened"
    /\ \E persist \in BOOLEAN : up = UploadLocals(persist, CliRetryInterval)
    /\ sync = EnterSync("none")
    /\ au = NoLocals

NextUpload == UploadNext \/ SyncNext \/ Poll \/ Finish \/ Propagate

SpecUpload == InitUpload /\ [][NextUpload]_vars

----------------------------------------------------------------------------
(* The upload to a device that may pause in the middle of an answer *)

InitAsync ==
    /\ written = OpeningWrites
    /\ pending = <<>>
    /\ quiet = -1
    /\ chunks = 0
    /\ echo = FALSE
    /\ late = TRUE
    /\ sl = IdleFrame
    /\ pc = "opened"
    /\ \E persist \in BOOLEAN : up = UploadLocals(persist, CliRetryInterval)
    /\ sync = EnterSync("none")
    /\ au = NoLocals

NextAsync == UploadNext \/ SyncNext \/ Poll \/ Finish \/ Propagate

SpecAsync == InitAsync /\ [][NextAsync]_vars

----------------------------------------------------------------------------
(* _open_device_config *)

\* line 146
needs_authentication(result) ==
    \/ contains(result, USER)
    \/ contains(result, PASSWORD)
    \/ contains(result, AUTHENTICATION)

\* line 145: the call of the opening synchronization
OpenSync ==
    /\ pc = "open"
    /\ pc' = "sync_exit"
    /\ sync' = EnterSync("open_synced")
    /\ UNCHANGED <<written, pending, quiet, chunks, echo, late, sl, up, au>>

\* the credentials: --user or input(), getpass()
LOGIN_USER == <<"u">>
LOGIN_PASSWORD == <<"p">>

\* the locals of _open_device_config, _authenticate and _wait_for
OpenLocals ==
    [user |-> LOGIN_USER, password |-> LOGIN_PASSWORD,
     result |-> <<>>,
     expected_string |-> <<>>, wf_result |-> <<>>, wf_tries |-> 0,
     tries_left |-> 0, pings |-> 0, ret |-> "none"]

\* lines 57-66: the call of _wait_for; `pings` counts its blank lines
EnterWaitFor(locals, expected_string, tries, current_result, ret) ==
    [locals EXCEPT !.expected_string = expected_string,
                   !.wf_result = current_result,
                   !.wf_tries = tries,
                   !.tries_left = tries,
                   !.pings = 0,
                   !.ret = ret]

\* line 83: the return; the locals of the call are gone
LeaveWaitFor(locals) ==
    [locals EXCEPT !.expected_string = <<>>, !.wf_result = <<>>, !.wf_tries = 0,
                   !.tries_left = 0, !.pings = 0, !.ret = "none"]

\* line 67: while expected_string not in result
wait_for_condition(expected_string, result) == ~contains(result, expected_string)

\* lines 67-69 and 83: the loop test, then the ping or the return
WaitForTest ==
    /\ pc = "wait_for"
    /\ IF wait_for_condition(au.expected_string, au.wf_result)
       THEN /\ au.pings < MaxWaitPings
            /\ send_line(BLANK, TRUE, FALSE, PingTries, TRUE, 0, DefaultRetryInterval)
            /\ au' = [au EXCEPT !.pings = @ + 1]
            /\ pc' = "wait_for_ping"
       ELSE /\ pc' = au.ret
            /\ au' = LeaveWaitFor(au)
            /\ UNCHANGED <<written, pending, quiet, chunks, sl>>
    /\ UNCHANGED <<echo, late, up, sync>>

\* line 69: the ping returned
WaitForReturned ==
    /\ pc = "wait_for_ping"
    /\ sl.st = "returned"
    /\ au' = [au EXCEPT !.wf_result = sl.result]
    /\ pc' = "wait_for"
    /\ UNCHANGED <<written, pending, quiet, chunks, echo, late, sl, up, sync>>

\* lines 70-81: the ping raised
WaitForRaised ==
    /\ pc = "wait_for_ping"
    /\ sl.st = "raised"
    /\ IF au.tries_left = 0
       THEN /\ pc' = "failed"
            /\ up' = [up EXCEPT !.exception = "WaitTimeout"]
            /\ au' = au
       ELSE /\ au' = [au EXCEPT !.tries_left = @ - 1]
            /\ pc' = "wait_for"
            /\ up' = up
    /\ UNCHANGED <<written, pending, quiet, chunks, echo, late, sl, sync>>

\* lines 146-154 and 90-95: the device asks for a login; _authenticate
\* waits for the "Username" cue
OpenLogin ==
    /\ pc = "open_synced"
    /\ needs_authentication(sync.result)
    /\ au' = EnterWaitFor([au EXCEPT !.result = sync.result], USERNAME,
                          WaitTries, sync.result, "auth_username_seen")
    /\ pc' = "wait_for"
    /\ sync' = LeaveSync(sync)
    /\ UNCHANGED <<written, pending, quiet, chunks, echo, late, sl, up>>

\* line 96
AuthSendUser ==
    /\ pc = "auth_username_seen"
    /\ send_line(au.user \o <<"\n">>, TRUE, FALSE, DefaultTries, FALSE, 0,
                 DefaultRetryInterval)
    /\ pc' = "auth_user_sent"
    /\ UNCHANGED <<echo, late, up, sync, au>>

\* lines 96-104: the answer to the user name; the password follows a
\* "Password" cue
AuthUserReturned ==
    /\ pc = "auth_user_sent"
    /\ sl.st = "returned"
    /\ IF contains(sl.result, PASSWORD)
       THEN /\ send_line(au.password, TRUE, FALSE, DefaultTries, TRUE, 0,
                         DefaultRetryInterval)
            /\ au' = au
            /\ pc' = "auth_password_sent"
       ELSE /\ au' = EnterWaitFor(au, PASSWORD,
                                  WaitTries, sl.result, "auth_password_seen")
            /\ pc' = "wait_for"
            /\ UNCHANGED <<written, pending, quiet, chunks, sl>>
    /\ UNCHANGED <<echo, late, up, sync>>

\* lines 98-104: _wait_for returned, the password is sent
AuthSendPassword ==
    /\ pc = "auth_password_seen"
    /\ send_line(au.password, TRUE, FALSE, DefaultTries, TRUE, 0, DefaultRetryInterval)
    /\ pc' = "auth_password_sent"
    /\ UNCHANGED <<echo, late, up, sync, au>>

\* lines 104-108 and 153-155: the answer to the password
AuthPasswordReturned ==
    /\ pc = "auth_password_sent"
    /\ sl.st = "returned"
    /\ IF contains(sl.result, AUTHENTICATION_FAILED)
       THEN /\ pc' = "failed"
            /\ up' = [up EXCEPT !.exception = "AuthenticationFailed"]
            /\ au' = au
       ELSE /\ au' = [au EXCEPT !.result = sl.result]
            /\ pc' = "authenticated"
            /\ up' = up
    /\ UNCHANGED <<written, pending, quiet, chunks, echo, late, sl, sync>>

\* lines 156-161: the test of what _authenticate returned, then "enable";
\* line 159 when no login was asked for
OpenEnable ==
    /\ \/ pc = "authenticated"
       \/ (pc = "open_synced" /\ ~needs_authentication(sync.result))
    /\ IF pc = "authenticated" /\ contains(au.result, AUTHENTICATION_FAILED)
       THEN /\ pc' = "failed"
            /\ up' = [up EXCEPT !.exception = "EnableAuthenticationFailed"]
            /\ UNCHANGED <<written, pending, quiet, chunks, sl, au, sync>>
       ELSE /\ send_line(ENABLE, TRUE, TRUE, DefaultTries, FALSE, 0,
                         DefaultRetryInterval)
            /\ au' = IF pc = "open_synced" THEN [au EXCEPT !.result = sync.result]
                                           ELSE au
            /\ sync' = IF pc = "open_synced" THEN LeaveSync(sync) ELSE sync
            /\ pc' = "enable_sent"
            /\ up' = up
    /\ UNCHANGED <<echo, late>>

\* lines 161-162: `result` takes the answer to "enable", and
\* "configure terminal" is sent
OpenConfigure ==
    /\ pc = "enable_sent"
    /\ sl.st = "returned"
    /\ send_line(CONFIGURE, TRUE, FALSE, DefaultTries, TRUE, 0, DefaultRetryInterval)
    /\ au' = [au EXCEPT !.result = sl.result]
    /\ pc' = "configure_sent"
    /\ UNCHANGED <<echo, late, up, sync>>

\* line 163
OpenBlank ==
    /\ pc = "configure_sent"
    /\ sl.st = "returned"
    /\ send_line(BLANK, TRUE, FALSE, DefaultTries, TRUE, 0, DefaultRetryInterval)
    /\ pc' = "blank_sent"
    /\ UNCHANGED <<echo, late, up, sync, au>>

\* line 163, line 195: _open_device_config returns
OpenDone ==
    /\ pc = "blank_sent"
    /\ sl.st = "returned"
    /\ pc' = "opened"
    /\ UNCHANGED <<written, pending, quiet, chunks, echo, late, sl, up, sync, au>>

WaitForNext ==
    \/ WaitForTest
    \/ WaitForReturned
    \/ WaitForRaised

OpenNext ==
    \/ OpenSync
    \/ OpenLogin
    \/ AuthSendUser
    \/ AuthUserReturned
    \/ AuthSendPassword
    \/ AuthPasswordReturned
    \/ OpenEnable
    \/ OpenConfigure
    \/ OpenBlank
    \/ OpenDone

----------------------------------------------------------------------------
(* _open_device_config on a device that may ask for a login *)

InitSession ==
    /\ written = <<>>
    /\ pending = <<>>
    /\ quiet = -1
    /\ chunks = 0
    /\ echo = FALSE
    /\ late = FALSE
    /\ sl = IdleFrame
    /\ pc = "open"
    /\ up = UploadLocals(TRUE, CliRetryInterval)
    /\ sync = EnterSync("none")
    /\ au = OpenLocals

NextSession == OpenNext \/ WaitForNext \/ SyncNext \/ Poll \/ Finish \/ Propagate

SpecSession == InitSession /\ [][NextSession]_vars

----------------------------------------------------------------------------
(* One call of _wait_for *)

InitWaitFor ==
    /\ written = <<>>
    /\ pending = <<>>
    /\ quiet = -1
    /\ chunks = 0
    /\ echo = FALSE
    /\ late = FALSE
    /\ sl = IdleFrame
    /\ pc = "wait_for"
    /\ up = UploadLocals(TRUE, CliRetryInterval)
    /\ sync = EnterSync("none")
    /\ \E expected_string \in {USERNAME, PASSWORD}, tries \in 0..MaxWaitTries,
          current_result \in {<<>>, PROMPT, LOGIN_CUE} :
            au = EnterWaitFor(OpenLocals, expected_string, tries, current_result,
                              "wait_for_returned")

NextWaitFor == WaitForNext \/ Poll \/ Finish

SpecWaitFor == InitWaitFor /\ [][NextWaitFor]_vars

----------------------------------------------------------------------------
(* The whole run of upload_config, from line 195, on a transport that      *)
(* echoes every write at once.                                             *)

InitEcho ==
    /\ written = <<>>
    /\ pending = <<>>
    /\ quiet = -1
    /\ chunks = 0
    /\ echo = TRUE
    /\ late = FALSE
    /\ sl = IdleFrame
    /\ pc = "open"
    /\ \E persist \in BOOLEAN, retry_interval \in {CliRetryInterval, DefaultRetryInterval} :
        up = UploadLocals(persist, retry_interval)
    /\ sync = EnterSync("none")
    /\ au = OpenLocals

NextEcho ==
    \/ OpenSync \/ OpenEnable \/ OpenConfigure \/ OpenBlank \/ OpenDone
    \/ ReadConfig \/ SendConfigLine \/ LineDone
    \/ PersistEnd \/ PersistCopy \/ SkipPersist \/ CopyDone \/ Finished
    \/ SyncExit \/ SyncDisable \/ SyncBlank \/ SyncPing \/ SyncPingReturned
    \/ Poll \/ Finish

SpecEcho == InitEcho /\ [][NextEcho]_vars

----------------------------------------------------------------------------
(* Properties *)

\* the exchange of the frame is over
Finished_sl == sl.st \in {"returned", "raised"}

\* the frame is the exchange of the configuration line at hand
AtConfigLine == pc = "line_sent" /\ sl.wait

\* the device put nothing on the line during the exchange of the frame
DeviceSilent == chunks = 0 /\ quiet = -1 /\ pending = <<>> /\ ~echo

\* C2: a waiting exchange with tries = N on a transport that delivers no
\* byte polls exactly N times, one sleep of retry_interval each, and then
\* fails with ExchangeTimeout.
C2_SilentDevicePollsExactlyTries ==
    (sl.wait /\ DeviceSilent) =>
        /\ sl.polls <= sl.tries
        /\ sl.polls = sl.tries - sl.tries_left
        /\ sl.slept = sl.extra_wait + sl.polls * sl.retry_interval
        /\ sl.st # "returned"
        /\ sl.st = "polling" => (sl.polls < sl.tries <=> ENABLED Poll)
        /\ sl.st = "raised" => (sl.polls = sl.tries /\ sl.error = "ExchangeTimeout")

C2_Witness ==
    /\ sl.wait /\ DeviceSilent
    /\ sl.st = "raised"
    /\ sl.tries = MaxTries
    /\ sl.polls = MaxTries

\* C3: an exchange that accumulated at least one byte does not fail with
\* ExchangeTimeout.
C3_TimeoutOnlyWhenNothingAccumulated ==
    (sl.st = "raised" /\ sl.error = "ExchangeTimeout") => sl.result_bytes = <<>>

\* C4: a waiting exchange polls at most `tries` times and sleeps at most
\* tries * retry_interval + extra_wait, whatever the device does.
C4_AtMostTriesPolls ==
    sl.wait =>
        /\ sl.polls <= sl.tries
        /\ sl.slept <= sl.tries * sl.retry_interval + sl.extra_wait

\* C1: a configuration line that is neither "y" nor a "define
\* interface-range" line, and whose accumulated response contains "invalid"
\* in any case, ends in DeviceError with the sent line and the response.
C1_ErrorResponseRaisesDeviceError ==
    (AtConfigLine /\ Finished_sl /\ ~allow_fail_of(up.line)
        /\ in_error(sl.result_bytes)) =>
            /\ sl.st = "raised"
            /\ sl.error = "DeviceError"
            /\ sl.line = up.line \o CRLF
            /\ sl.result = sl.result_bytes

\* C6: a "y" or "define interface-range" line whose response contains
\* "invalid" does not raise: the exchange returns the response.
C6_AllowedFailureReturns ==
    (AtConfigLine /\ Finished_sl /\ allow_fail_of(up.line)
        /\ in_error(sl.result_bytes)) =>
            /\ sl.st = "returned"
            /\ sl.result = sl.result_bytes

\* C5: once the exchange of a configuration line has failed, the run is
\* over with that failure and nothing more is written to the transport.
C5_FailureAbortsRun ==
    [][((AtConfigLine /\ sl.st = "raised") \/ pc = "failed") =>
        (written' = written /\ pc' = "failed" /\ up'.exception = sl.error)]_vars

C5_Witness ==
    /\ pc = "failed"
    /\ up.exception \in {"DeviceError", "ExchangeTimeout"}
    /\ up.persist
    /\ up.linenum + 1 < Len(up.lines)
    /\ sl.line = up.line \o CRLF

\* C7: the exchange of a line containing "crypto key generate" runs with
\* tries=5000, extra_wait=2.0 and retry_interval=0.1.
C7_CryptoLineHasElevatedBudget ==
    (AtConfigLine /\ is_crypto(up.line)) =>
        /\ sl.tries = CryptoTries
        /\ sl.extra_wait = CryptoExtraWait
        /\ sl.retry_interval = CryptoRetryInterval

\* the line before the line at hand contains "crypto key generate"
AfterCryptoLine ==
    /\ AtConfigLine
    /\ up.linenum >= 1
    /\ is_crypto(strip(up.lines[up.linenum]))

\* C8: the line right after a line containing "crypto key generate" is
\* sent with tries=5000 and retry_interval=0.1.
C8_LineAfterCryptoInheritsBudget ==
    AfterCryptoLine =>
        /\ sl.tries = CryptoTries
        /\ sl.retry_interval = CryptoRetryInterval

C8_Witness ==
    /\ AfterCryptoLine
    /\ ~is_crypto(up.line)
    /\ sl.st = "returned"
    /\ sl.polls > DefaultTries

\* the writes of the run after the opening of the session
UploadWrites == SubSeq(written, Len(OpeningWrites) + 1, Len(written))

\* every line of the file was exchanged and so was "end"
PersistenceReached ==
    /\ up.persist
    /\ pc \notin {"open", "opened", "loop", "line_sent", "end_sent"}
    /\ ~(pc = "failed" /\ sl.st = "raised"
            /\ Len(UploadWrites) <= Len(up.lines) + 1)

\* C9: with persistence, once every line of the file (there may be none)
\* was processed and the exchange of "end" returned, "end" and "copy
\* running-config startup-config" are the two writes after the last
\* configuration line; a failure of the copy ends the run.
C9_EndThenCopy ==
    /\ PersistenceReached =>
        /\ Len(UploadWrites) >= Len(up.lines) + 2
        /\ UploadWrites[Len(up.lines) + 1] = END \o CRLF
        /\ UploadWrites[Len(up.lines) + 2] = COPY \o CRLF
    /\ (sl.st = "raised" /\ pc \in {"copy_sent", "failed"} /\ sl.line = COPY \o CRLF) =>
        Len(UploadWrites) = Len(up.lines) + 2

\* the writes of a synchronization that gets an answer to its first ping
SyncWrites ==
    Repeat(EXIT \o CRLF, NumExits) \o Repeat(DISABLE \o CRLF, NumDisables)
        \o Repeat(CRLF, 3)

\* C10: on an echoing transport the run does not raise, and when it is
\* over the file's lines were written once each, in file order, after the
\* opening of the session and before the closing synchronization, which
\* ends the run.
C10_EchoRunCompletes ==
    /\ pc # "failed"
    /\ pc = "done" =>
        written = OpeningWrites
                    \o [i \in 1..Len(up.lines) |-> strip(up.lines[i]) \o CRLF]
                    \o (IF up.persist THEN <<END \o CRLF, COPY \o CRLF>> ELSE <<>>)
                    \o SyncWrites

\* C11: no exception leaves the prompt synchronizer, whatever the device
\* does: every failure of an exchange it performs is caught.
C11_SyncNeverFails ==
    [][(pc \in SyncPcs) => (pc' # "failed")]_vars

\* a call of the synchronizer is running, or has just returned
SyncCallActive == pc \in SyncPcs \cup {sync.ret}

\* the writes of the running call of the synchronizer
SyncCallWrites == SubSeq(written, sync.start + 1, Len(written))

NoWrites ==
    Cardinality({i \in 1..Len(SyncCallWrites) : SyncCallWrites[i] = NO \o CRLF})

\* C12: one call of the synchronizer writes "no" once when the response
\* its waiting ping returned contains "[yes/no]" and never otherwise; never
\* twice, whatever the response to "no" is.
C12_NoWrittenOnceForTheWizard ==
    SyncCallActive =>
        /\ NoWrites <= 1
        /\ NoWrites = 1 => contains(sync.answer, YES_NO)
        /\ (pc \in {"sync_no_wait", sync.ret} /\ contains(sync.answer, YES_NO))
                => NoWrites = 1

C12_Witness ==
    /\ pc = sync.ret
    /\ pc \notin SyncPcs
    /\ contains(sync.answer, YES_NO)
    /\ contains(sync.result, YES_NO)
    /\ NoWrites = 1

IsPrefix(p, q) == Len(p) <= Len(q) /\ SubSeq(q, 1, Len(p)) = p

\* the writes of a call that needs k rounds and answers the first-boot dialog
SyncPattern(k) ==
    Repeat(EXIT \o CRLF, NumExits) \o Repeat(DISABLE \o CRLF, NumDisables)
        \o Repeat(CRLF, 3 * k) \o <<NO \o CRLF>>

BurstLen == NumExits + NumDisables

\* C16: a call of the synchronizer writes 6 "exit" and 4 "disable" lines
\* without reading, then rounds of three blank lines of which the third
\* alone is polled, with tries=10; a round follows only a round whose ping
\* raised, and the text returned is not empty.
C16_SyncShape ==
    SyncCallActive =>
        /\ \E k \in 0..(sync.rounds + 1) : IsPrefix(SyncCallWrites, SyncPattern(k))
        /\ pc \in {"sync_exit", "sync_disable", "sync_blank", "sync_ping"}
                => sl.st # "polling"
        /\ pc \in {"sync_exit", "sync_disable"} => Len(SyncCallWrites) < BurstLen
        /\ pc = "sync_ping_wait" =>
            /\ sl.wait /\ sl.tries = PingTries
            /\ SyncCallWrites = SubSeq(SyncPattern(sync.rounds), 1, BurstLen + 3 * sync.rounds)
        /\ (pc = "sync_blank" /\ sync.n = 0 /\ sync.rounds >= 1) => sl.st = "raised"
        /\ pc = sync.ret =>
            /\ sync.rounds >= 1
            /\ sync.result # <<>>
            /\ sync.answer # <<>>
            /\ IsPrefix(SubSeq(SyncPattern(sync.rounds), 1, BurstLen + 3 * sync.rounds),
                        SyncCallWrites)
            /\ Len(SyncCallWrites) <= BurstLen + 3 * sync.rounds + 1

C16_Witness ==
    /\ pc = sync.ret
    /\ pc \notin SyncPcs
    /\ sync.rounds = 2
    /\ Len(SyncCallWrites) = BurstLen + 6

\* the password as it is written
PasswordLine == normalize(LOGIN_PASSWORD, TRUE)

\* the exchange of the password is over and the run has gone on
PasswordAnswered ==
    /\ sl.wait
    /\ sl.line = PasswordLine
    /\ sl.st \in {"returned", "raised"}
    /\ pc # "auth_password_sent"

\* C13: when the answer of the device to the password contains
\* "Authentication failed", the opening of the session fails with
\* AuthenticationFailed and the password stays the last line written.
C13_RejectedLoginFails ==
    (PasswordAnswered /\ contains(sl.result_bytes, AUTHENTICATION_FAILED)) =>
        /\ pc = "failed"
        /\ up.exception = "AuthenticationFailed"
        /\ written[Len(written)] = PasswordLine

\* C14: when the answer to "enable" asks for a password, the line written
\* next is not "configure terminal": the password is sent and its answer
\* validated first.
C14_EnablePasswordValidated ==
    (pc = "configure_sent" /\ contains(au.result, PASSWORD)) =>
        written[Len(written)] # CONFIGURE \o CRLF

\* C15: a line is written only once the exchange of the line before it has
\* got an answer or timed out (the original statement: every line, the
\* lines written without waiting included).
C15_OneLineInFlight ==
    [][Len(written') > Len(written) =>
        (sl.st = "idle" \/ (sl.wait /\ sl.st \in {"returned", "raised"}))]_vars

\* C15, amended: no line is written while an exchange is polling; the lines
\* written without waiting follow one another without an answer in between.
C15_NoWriteWhilePolling ==
    [][Len(written') > Len(written) => sl.st # "polling"]_vars

\* the second config line has just been written, after the exchange of the
\* first one ended and before its own first poll
C15_Witness ==
    /\ pc = "line_sent"
    /\ up.linenum = 1
    /\ sl.st = "polling"
    /\ sl.polls = 0
    /\ Len(written) = Len(OpeningWrites) + 2

\* C20: a wait for a cue sends at most tries + 1 blank lines.
C20_WaitForBoundedPings ==
    pc \in {"wait_for", "wait_for_ping"} => au.pings <= au.wf_tries + 1

\* the line at hand neither contains "crypto key generate" nor follows a
\* line that does
OrdinaryPolicyLine ==
    /\ AtConfigLine
    /\ ~is_crypto(up.line)
    /\ (up.linenum = 0 \/ ~is_crypto(strip(up.lines[up.linenum])))

\* C17: a line that neither contains "crypto key generate" nor follows a
\* line containing it is sent with tries=100, the retry interval of the
\* command line and no extra wait.
C17_OrdinaryLineHasDefaultPolicy ==
    OrdinaryPolicyLine =>
        /\ sl.tries = DefaultTries
        /\ sl.retry_interval = up.original_retry_interval
        /\ sl.extra_wait = 0

\* the second line after a crypto line, with a command line interval that
\* differs from the crypto one
C17_Witness ==
    /\ OrdinaryPolicyLine
    /\ up.linenum = 2
    /\ is_crypto(strip(up.lines[1]))
    /\ sl.tries = DefaultTries
    /\ sl.retry_interval = CliRetryInterval
    /\ sl.st = "returned"

NumLines == Len(up.lines)

\* the last line of the file follows a line containing "crypto key generate"
LastFollowsCrypto == NumLines >= 2 /\ is_crypto(strip(up.lines[NumLines - 1]))

\* C19: for a file of at least one line, "copy running-config
\* startup-config" is sent with the tries, extra wait and retry interval of
\* the exchange of the last line; "end" with tries=100, no extra wait and
\* failures allowed.
C19_CopyUsesLastLinePolicy ==
    /\ (pc = "copy_sent" /\ NumLines >= 1) =>
        /\ sl.line = COPY \o CRLF
        /\ sl.tries = IF LastFollowsCrypto THEN CryptoTries ELSE DefaultTries
        /\ sl.extra_wait = extra_wait_of(strip(up.lines[NumLines]))
        /\ sl.retry_interval = IF LastFollowsCrypto THEN CryptoRetryInterval
                                                    ELSE up.original_retry_interval
        /\ ~sl.allow_fail
    /\ pc = "end_sent" =>
        /\ sl.line = END \o CRLF
        /\ sl.wait
        /\ sl.tries = DefaultTries
        /\ sl.extra_wait = 0
        /\ sl.allow_fail

\* "copy" answered after a file whose last line alone is a crypto line
C19_Witness ==
    /\ pc = "copy_sent"
    /\ NumLines = 2
    /\ is_crypto(strip(up.lines[NumLines]))
    /\ ~LastFollowsCrypto
    /\ sl.st = "returned"
    /\ sl.tries = DefaultTries
    /\ sl.extra_wait = CryptoExtraWait

\* C18: the text the exchange of a config line accumulates holds no byte
\* the device had emitted before the line was written.
C18_OnlyOwnBytes ==
    (AtConfigLine /\ sl.polls >= 1) => sl.stale = 0

====
